---- MODULE Spec2Model ----
(***************************************************************************)
(* The backend bridge of omr-electron: electron/python-bridge.cjs (class   *)
(* PythonBridge) driven by electron/main.cjs (createWindow, cleanup and    *)
(* the 'python-call' dispatcher), together with the backend subprocess at  *)
(* the other end of the stdio pipes.                                       *)
(*                                                                         *)
(* Every event-loop callback of the program is one action.  The backend    *)
(* is a black box: it may exit, and it may write any RESPONSE:/ERROR:      *)
(* frame to its stdout; the operating system hands the bytes to the        *)
(* 'data' handler in chunks of any size.                                   *)
(*                                                                         *)
(* main.cjs holds two versions of the main process.  The first one drives  *)
(* PythonBridge over pipes; the second one (socket mode) spawns the        *)
(* backend without pipes and polls a port until it accepts a connection.   *)
(* `sock` is the state of the second one.                                  *)
(* `app` follows the first one over the life of the application: ready,   *)
(* window-all-closed, activate and quit, and every PythonBridge created.   *)
(***************************************************************************)
EXTENDS Integers, Sequences, FiniteSets, TLC

\* ------------------------------------------------------------------ bounds
\* number of 'python-call' invocations made by the renderer
MaxCalls == 3
\* number of lines the backend writes to its stdout
MaxFrames == 2
\* number of times the host runs cleanup() (window-all-closed, before-quit,
\* SIGINT, SIGTERM, exit)
MaxCleanups == 2
\* the budget of waitForService, in units of 1000 ms (30 in main.cjs)
Timeout == 3
\* the delay of the retry timer of waitForService, in units of 1000 ms
RetryDelay == 1
\* socket.setTimeout of one connection attempt, in units of 1000 ms
ConnectTimeout == 1
\* the clock stops here: no run of waitForService is still waiting by then
MaxTime == Timeout + RetryDelay + ConnectTimeout
\* PythonBridge objects created over the life of the application
MaxBridges == 3

\* ------------------------------------------------------- inputs of a call
\* the names the switch of 'python-call' knows
Catalogue ==
  {"create_exam", "get_exams", "get_exam", "upload_students", "get_students",
   "upload_solution", "get_solution", "process_omr_image", "batch_process_omr",
   "save_result", "get_results", "get_all_results", "generate_omr_sheets",
   "download_omr_sheets", "get_settings", "update_settings"}
\* names a renderer may pass to pythonCall(method, params) that the switch
\* does not know
UnknownNames == {"delete_exam", "ping"}
\* the catalogue names used by the calls of the bridge model
Methods == {"get_exams", "create_exam"}
\* params as they arrive over IPC (structured clone): either a value
\* JSON.stringify accepts, or one it throws on (a BigInt, a cycle)
Params == {"json", "nonjson"}
\* the params the dispatcher tells apart: an object, or none at all
\* (pythonCall(method)), on which reading a property throws
DispatchParams == {"json", "undefined"}
\* ids a frame written by the backend may carry
FrameIds == 1 .. MaxCalls
\* the tags of the line protocol
Kinds == {"RESPONSE", "ERROR"}
\* the result value of a RESPONSE frame, the message of an ERROR frame
Payload(k) == IF k = "RESPONSE" THEN "[]" ELSE "Exam not found"

VARIABLES
  pythonBridge,    \* main.cjs `pythonBridge`: "null" or "bridge"
  pythonProcess,   \* PythonBridge.pythonProcess: "null" or "proc"
  isReady,         \* PythonBridge.isReady
  messageQueue,    \* PythonBridge.messageQueue: Seq of {method, params, callback}
  callbacks,       \* PythonBridge.callbacks: id -> callback (the caller)
  messageId,       \* PythonBridge.messageId
  timer,           \* the 2000 ms readiness timer: "unset", "scheduled", "fired"
  initPromise,     \* the promise of initialize(): "none", "pending", "resolved", "rejected"
  procState,       \* the subprocess: "none", "running", "exited", or after a
                   \* failed spawn "spawnerr" ('error' not yet emitted), "failed"
  kills,           \* number of kill('SIGTERM') calls made by terminate()
  stdin,           \* Requests whose write() returned, in order
  pipe,            \* symbols written by the backend to stdout, not yet read
  emitted,         \* number of frames the backend has written so far
  partial,         \* history: the symbols read so far of the line not yet ended
  discarded,       \* history: "none"; "dropped" once a parsed frame had no
                   \* callback for its id; "served" once a frame was delivered
                   \* after that
  noted,           \* history: "batch" once one read completed two or more
                   \* callers; "again" once a parsed frame carried an id that
                   \* had been allocated but was no longer pending
  results,         \* history: caller -> the invocations of its callback, in order
  made,            \* history: made[c] is the path call c took: "thrown",
                   \* "queued" or "live"
  cleanups,        \* history: number of times cleanup() has run
  sock,            \* the socket-mode version of main.cjs (second half of the
                   \* file): its pythonProcess, readiness gate and clock
  app              \* the application of the pipe-mode main.cjs over its life:
                   \* windows, the `pythonBridge` variable and every
                   \* PythonBridge created so far

vars == <<pythonBridge, pythonProcess, isReady, messageQueue, callbacks,
          messageId, timer, initPromise, procState, kills,
          stdin, pipe, emitted, partial, discarded, noted, results, made,
          cleanups, sock, app>>

bridgeVars == <<isReady, messageQueue, callbacks, messageId, stdin, discarded, noted, results>>

\* ------------------------------------------------------------ Map (callbacks)
EmptyMap == [x \in {} |-> 0]

MapSet(m, k, v) == [x \in (DOMAIN m) \cup {k} |-> IF x = k THEN v ELSE m[x]]

MapDelete(m, k) == [x \in (DOMAIN m) \ {k} |-> m[x]]

\* ------------------------------------------------------------ completions
\* One invocation of a caller's completion handle.  how: "resolve" or
\* "reject"; via: what caused it; id: the id of the frame or of the Request;
\* val: the result value or the error message.
Completion(how, via, id, val) == [how |-> how, via |-> via, id |-> id, val |-> val]

\* the callback of caller c is invoked with completion r
Complete(res, c, r) ==
  [x \in (DOMAIN res) \cup {c} |->
     IF x = c THEN (IF c \in DOMAIN res THEN Append(res[c], r) ELSE <<r>>) ELSE res[x]]

CompletionsOf(res, c) == IF c \in DOMAIN res THEN res[c] ELSE <<>>

\* The bridge object as a record, for the synchronous code that runs inside
\* one event-loop callback.
Bridge ==
  [isReady |-> isReady, messageQueue |-> messageQueue, callbacks |-> callbacks,
   messageId |-> messageId, stdin |-> stdin, discarded |-> discarded,
   noted |-> noted, results |-> results]

\* ------------------------------------------------------------ callPython
\* JSON.stringify(message) throws on params it cannot serialise, and
\* this.pythonProcess.stdin throws a TypeError when pythonProcess is null.
WriteThrows(proc, call) == proc = "null" \/ call.params = "nonjson"

\* callPython with `this.messageId + 1` in place of `++this.messageId`: the
\* counter is never stored, so every Request carries the same id
CallPythonSameId(b, call, proc) ==
  IF ~b.isReady
  THEN [b EXCEPT !.messageQueue = Append(@, call)]
  ELSE LET id == b.messageId + 1
           reg == [b EXCEPT !.callbacks = MapSet(@, id, call.callback)]
       IN IF WriteThrows(proc, call)
          THEN [reg EXCEPT
                  !.results = Complete(@, call.callback,
                                       Completion("reject", "write", id, "TypeError")),
                  !.callbacks = MapDelete(@, id)]
          ELSE [reg EXCEPT
                  !.stdin = Append(@, [id |-> id, method |-> call.method,
                                       params |-> call.params,
                                       callback |-> call.callback])]

\* callPython with the id allocated and the callback registered before the
\* readiness test instead of after it
CallPythonEagerId(b, call, proc) ==
  LET id == b.messageId + 1
      reg == [b EXCEPT !.messageId = id,
                       !.callbacks = MapSet(@, id, call.callback)]
  IN IF ~b.isReady
     THEN [reg EXCEPT !.messageQueue = Append(@, call)]
     ELSE IF WriteThrows(proc, call)
          THEN [reg EXCEPT
                  !.results = Complete(@, call.callback,
                                       Completion("reject", "write", id, "TypeError")),
                  !.callbacks = MapDelete(@, id)]
          ELSE [reg EXCEPT
                  !.stdin = Append(@, [id |-> id, method |-> call.method,
                                       params |-> call.params,
                                       callback |-> call.callback])]

\* callPython whose catch does not delete the entry it registered
CallPythonKeepsEntry(b, call, proc) ==
  IF ~b.isReady
  THEN [b EXCEPT !.messageQueue = Append(@, call)]
  ELSE LET id == b.messageId + 1
           reg == [b EXCEPT !.messageId = id,
                            !.callbacks = MapSet(@, id, call.callback)]
       IN IF WriteThrows(proc, call)
          THEN [reg EXCEPT
                  !.results = Complete(@, call.callback,
                                       Completion("reject", "write", id, "TypeError"))]
          ELSE [reg EXCEPT
                  !.stdin = Append(@, [id |-> id, method |-> call.method,
                                       params |-> call.params,
                                       callback |-> call.callback])]

CallPython(b, call, proc) ==
  IF ~b.isReady
  THEN [b EXCEPT !.messageQueue = Append(@, call)]
  ELSE LET id == b.messageId + 1
           reg == [b EXCEPT !.messageId = id,
                            !.callbacks = MapSet(@, id, call.callback)]
       IN IF WriteThrows(proc, call)
          THEN [reg EXCEPT
                  !.results = Complete(@, call.callback,
                                       Completion("reject", "write", id, "TypeError")),
                  !.callbacks = MapDelete(@, id)]
          ELSE [reg EXCEPT
                  !.stdin = Append(@, [id |-> id, method |-> call.method,
                                       params |-> call.params,
                                       callback |-> call.callback])]

\* ------------------------------------------------------ processMessageQueue
\* processMessageQueue with pop() in place of shift(): the queue is drained
\* from its newest entry
RECURSIVE ProcessMessageQueuePop(_, _)
ProcessMessageQueuePop(b, proc) ==
  IF Len(b.messageQueue) = 0 THEN b
  ELSE LET n == Len(b.messageQueue)
           call == b.messageQueue[n]
           popped == [b EXCEPT !.messageQueue = SubSeq(@, 1, n - 1)]
       IN ProcessMessageQueuePop(CallPython(popped, call, proc), proc)

\* processMessageQueue with `if` in place of `while`: only the oldest entry
\* is taken
ProcessMessageQueueOne(b, proc) ==
  IF Len(b.messageQueue) = 0 THEN b
  ELSE CallPython([b EXCEPT !.messageQueue = Tail(@)], Head(b.messageQueue), proc)

RECURSIVE ProcessMessageQueue(_, _)
ProcessMessageQueue(b, proc) ==
  IF Len(b.messageQueue) = 0 THEN b
  ELSE LET call == Head(b.messageQueue)
           shifted == [b EXCEPT !.messageQueue = Tail(@)]
       IN ProcessMessageQueue(CallPython(shifted, call, proc), proc)

\* ------------------------------------------------------------ line protocol
\* The text the backend writes, as a sequence of symbols.  One frame is the
\* line  <tag> <"{"id":N,> <"result":V}> <"\n">  : four symbols, so that a read
\* may end between any two of them.
TagSym(k) == [s |-> "tag", kind |-> k, id |-> 0, val |-> "-"]

IdSym(i) == [s |-> "id", kind |-> "-", id |-> i, val |-> "-"]

ValSym(v) == [s |-> "val", kind |-> "-", id |-> 0, val |-> v]

NL == [s |-> "nl", kind |-> "-", id |-> 0, val |-> "-"]

\* text that is not JSON
Junk == [s |-> "text", kind |-> "-", id |-> 0, val |-> "-"]

Frames == {[kind |-> k, id |-> i, val |-> Payload(k)] : k \in Kinds, i \in FrameIds}

\* what the backend prints for a frame
Encode(f) == <<TagSym(f.kind), IdSym(f.id), ValSym(f.val), NL>>

\* Lines of the backend's stdout that are not frames: a line with neither
\* tag (a log line), and a line that starts with a tag but is not followed by
\* JSON (a log line such as "ERROR: cannot open file")
LogLines == {<<Junk, NL>>, <<TagSym("ERROR"), Junk, NL>>}

\* String.prototype.trim: the newline is the only whitespace of the text
RECURSIVE TrimLeft(_)
TrimLeft(t) ==
  IF t # <<>> /\ Head(t) = NL THEN TrimLeft(Tail(t)) ELSE t

RECURSIVE TrimRight(_)
TrimRight(t) ==
  IF t # <<>> /\ t[Len(t)] = NL THEN TrimRight(SubSeq(t, 1, Len(t) - 1)) ELSE t

Trim(t) == TrimRight(TrimLeft(t))

\* String.prototype.split('\n'): always at least one (possibly empty) line
RECURSIVE SplitFrom(_, _)
SplitFrom(t, cur) ==
  IF t = <<>> THEN <<cur>>
  ELSE IF Head(t) = NL THEN <<cur>> \o SplitFrom(Tail(t), <<>>)
  ELSE SplitFrom(Tail(t), Append(cur, Head(t)))

Split(t) == SplitFrom(t, <<>>)

\* line.startsWith('RESPONSE:') / line.startsWith('ERROR:')
StartsWith(line, k) == Len(line) >= 1 /\ line[1] = TagSym(k)

\* JSON.parse of what follows the tag succeeds only on a whole object
JSONParses(body) == Len(body) = 2 /\ body[1].s = "id" /\ body[2].s = "val"

JSONParse(body) == [id |-> body[1].id, val |-> body[2].val]

\* a lookup that takes replies to arrive in Request order: the callback of
\* the oldest pending id, whatever id the frame carries
CallbackOldest(cbs, id) ==
  IF DOMAIN cbs = {} THEN 0
  ELSE cbs[CHOOSE i \in DOMAIN cbs : \A j \in DOMAIN cbs : i <= j]

\* the callback looked up for a parsed frame: this.callbacks.get(id)
CallbackFor(cbs, id) == IF id \in DOMAIN cbs THEN cbs[id] ELSE 0

\* the branch without `this.callbacks.delete(id)`: the entry stays
DeliverKeepsEntry(b, k, msg) ==
  LET callback == CallbackFor(b.callbacks, msg.id)
  IN IF callback # 0
     THEN [b EXCEPT
             !.results = Complete(@, callback,
                            Completion(IF k = "RESPONSE" THEN "resolve" ELSE "reject",
                                       k, msg.id, msg.val)),
             !.discarded = IF @ = "dropped" THEN "served" ELSE @]
     ELSE [b EXCEPT !.discarded = IF @ = "none" THEN "dropped" ELSE @,
                    !.noted = IF msg.id <= b.messageId THEN @ \cup {"again"} ELSE @]

\* the ERROR branch with a message of its own in place of error.message
DeliverOwnMessage(b, k, msg) ==
  LET callback == CallbackFor(b.callbacks, msg.id)
  IN IF callback # 0
     THEN [b EXCEPT
             !.results = Complete(@, callback,
                            Completion(IF k = "RESPONSE" THEN "resolve" ELSE "reject",
                                       k, msg.id,
                                       IF k = "ERROR" THEN "Backend error" ELSE msg.val)),
             !.callbacks = MapDelete(@, msg.id),
             !.discarded = IF @ = "dropped" THEN "served" ELSE @]
     ELSE [b EXCEPT !.discarded = IF @ = "none" THEN "dropped" ELSE @,
                    !.noted = IF msg.id <= b.messageId THEN @ \cup {"again"} ELSE @]

\* the body of one branch of the loop, after JSON.parse returned `msg`
Deliver(b, k, msg) ==
  LET callback == CallbackFor(b.callbacks, msg.id)
  IN IF callback # 0
     THEN [b EXCEPT
             !.results = Complete(@, callback,
                            Completion(IF k = "RESPONSE" THEN "resolve" ELSE "reject",
                                       k, msg.id, msg.val)),
             !.callbacks = MapDelete(@, msg.id),
             !.discarded = IF @ = "dropped" THEN "served" ELSE @]
     ELSE [b EXCEPT !.discarded = IF @ = "none" THEN "dropped" ELSE @,
                    !.noted = IF msg.id <= b.messageId THEN @ \cup {"again"} ELSE @]

\* the loop without `if (callback)`: calling the missing callback of an
\* unmatched id throws a TypeError, which the catch takes, ending the loop
RECURSIVE HandleLinesNoGuard(_, _)
HandleLinesNoGuard(b, lines) ==
  IF lines = <<>> THEN b
  ELSE LET line == Head(lines)
       IN IF StartsWith(line, "RESPONSE") \/ StartsWith(line, "ERROR")
          THEN IF JSONParses(Tail(line)) /\ JSONParse(Tail(line)).id \in DOMAIN b.callbacks
               THEN HandleLinesNoGuard(Deliver(b, line[1].kind, JSONParse(Tail(line))),
                                       Tail(lines))
               ELSE b
          ELSE HandleLinesNoGuard(b, Tail(lines))

\* the loop over the lines taken from the last line to the first
RECURSIVE HandleLinesBackwards(_, _)
HandleLinesBackwards(b, lines) ==
  IF lines = <<>> THEN b
  ELSE LET line == lines[Len(lines)]
           rest == SubSeq(lines, 1, Len(lines) - 1)
       IN IF StartsWith(line, "RESPONSE") \/ StartsWith(line, "ERROR")
          THEN IF JSONParses(Tail(line))
               THEN HandleLinesBackwards(Deliver(b, line[1].kind, JSONParse(Tail(line))), rest)
               ELSE b
          ELSE HandleLinesBackwards(b, rest)

\* for (const line of lines) {...} inside try {...} catch: a throwing
\* JSON.parse leaves the loop, the lines after it are not looked at
RECURSIVE HandleLines(_, _)
HandleLines(b, lines) ==
  IF lines = <<>> THEN b
  ELSE LET line == Head(lines)
       IN IF StartsWith(line, "RESPONSE") \/ StartsWith(line, "ERROR")
          THEN IF JSONParses(Tail(line))
               THEN HandleLines(Deliver(b, line[1].kind, JSONParse(Tail(line))), Tail(lines))
               ELSE b
          ELSE HandleLines(b, Tail(lines))

HandlePythonMessage(b, data) ==
  LET r == HandleLines(b, Split(Trim(data)))
  IN [r EXCEPT !.noted =
        IF Cardinality(DOMAIN b.callbacks) >= Cardinality(DOMAIN r.callbacks) + 2
        THEN @ \cup {"batch"} ELSE @]

\* what a line buffer would hold after reading chunk t on top of cur: the
\* symbols after the last newline
RECURSIVE Unfinished(_, _)
Unfinished(cur, t) ==
  IF t = <<>> THEN cur
  ELSE IF Head(t) = NL THEN Unfinished(<<>>, Tail(t))
  ELSE Unfinished(Append(cur, Head(t)), Tail(t))

\* ------------------------------------------------- socket-mode main.cjs
\* The second version of main.cjs in the file: it spawns the backend without
\* pipes and waits until port 3001 accepts a connection.
\*   phase: "idle" before createWindow; "probing" while isPortAvailable runs;
\*          "polling" while a connection attempt of waitForService is open;
\*          "backoff" while its retry timer is pending; then "ready",
\*          "reused" (a backend was already listening) or "failed"
\*   pythonProcess: the variable of main.cjs, "null" or "proc"
\*   os: the subprocess, as procState
\*   listening: something accepts connections on the port
\*   now: Date.now(); startTime: of waitForService; since: when the open
\*        attempt or the pending retry timer was started
\*   kills: number of kill('SIGTERM') calls; error: why startPythonBackend
\*        returned false
\*   sockets: sockets of checkConnection not yet destroyed; timers: retry
\*        timers not yet fired; settles: calls of resolve/reject of the
\*        promise of waitForService
\*   portFree: nothing holds port 3001 when isPortAvailable probes it
\*   page: what the window shows, "none", "loading" or "main";
\*   dialogs: the titles of the error boxes shown
SockStart ==
  [mode |-> "socket", phase |-> "idle", pythonProcess |-> "null", os |-> "none",
   listening |-> FALSE, now |-> 0, startTime |-> 0, since |-> 0, kills |-> 0,
   error |-> "none", sockets |-> 0, timers |-> 0, settles |-> 0,
   portFree |-> TRUE, page |-> "none", dialogs |-> <<>>]

\* the socket-mode main.cjs when the pipe-mode one is the program running
SockOff == [SockStart EXCEPT !.mode = "pipe"]

\* everything of the pipe-mode program
pipeVars == <<pythonBridge, pythonProcess, isReady, messageQueue, callbacks,
              messageId, timer, initPromise, procState, kills,
              stdin, pipe, emitted, partial, discarded, noted, results, made>>

\* startPythonBackend returns true; startServices resolves and the `then`
\* of createWindow loads the main page
BackendStarted(s, phase) == [s EXCEPT !.phase = phase, !.page = "main"]

\* the catch of startPythonBackend: the 'Backend Error' box (mainWindow is
\* set) and `return false`; startServices awaits the call and does not look
\* at its value, so it resolves and the `then` of createWindow loads the
\* main page
BackendFailed(s, why) ==
  [s EXCEPT !.phase = "failed", !.error = why,
            !.dialogs = Append(@, "Backend Error"), !.page = "main"]

\* resolve(true) of waitForService: the first settlement continues
\* startPythonBackend, a later one has no effect
GateResolve(s) ==
  IF s.settles = 0 THEN BackendStarted([s EXCEPT !.settles = 1], "ready")
  ELSE [s EXCEPT !.settles = @ + 1]

\* reject(new Error(...)) of waitForService
GateReject(s) ==
  IF s.settles = 0 THEN BackendFailed([s EXCEPT !.settles = 1], "timeout")
  ELSE [s EXCEPT !.settles = @ + 1]

\* checkAgain with `>=` in place of `>`: gives up when the elapsed time
\* equals the budget
CheckAgainEarly(s) ==
  IF s.now - s.startTime >= Timeout
  THEN GateReject(s)
  ELSE [s EXCEPT !.timers = @ + 1, !.phase = "backoff", !.since = s.now]

\* checkAgain of waitForService
CheckAgain(s) ==
  IF s.now - s.startTime > Timeout
  THEN GateReject(s)
  ELSE [s EXCEPT !.timers = @ + 1, !.phase = "backoff", !.since = s.now]

\* checkConnection: a new socket with a connect timeout
CheckConnection(s) ==
  [s EXCEPT !.sockets = @ + 1, !.phase = "polling", !.since = s.now]

\* the 'timeout' handler without socket.destroy()
OnTimeoutKeepsSocket(s) == CheckAgain(s)

\* the 'timeout' handler: socket.destroy(); checkAgain()
OnTimeout(s) == CheckAgain([s EXCEPT !.sockets = @ - 1])

\* the 'error' handler: checkAgain(); the failed socket is destroyed by net
OnError(s) == CheckAgain([s EXCEPT !.sockets = @ - 1])

\* the 'connect' handler: socket.destroy(); resolve(true)
OnConnect(s) == GateResolve([s EXCEPT !.sockets = @ - 1])

\* a probe that answers true when the port is taken
IsPortAvailableInverted(s) == ~s.portFree

\* isPortAvailable: listen() succeeds (resolve(true) after close) or the
\* server reports an error (resolve(false))
IsPortAvailable(s) == s.portFree

\* createWindow: the loading page, then startServices -> startPythonBackend,
\* up to the await of isPortAvailable; the port is free or taken
SockCreateWindow ==
  /\ sock.mode = "socket" /\ sock.phase = "idle"
  /\ \E f \in BOOLEAN :
       sock' = [sock EXCEPT !.phase = "probing", !.page = "loading", !.portFree = f]
  /\ UNCHANGED <<pipeVars, cleanups, app>>

\* isPortAvailable resolves false: a backend is already running
SockPortBusy ==
  /\ sock.mode = "socket" /\ sock.phase = "probing"
  /\ ~IsPortAvailable(sock)
  /\ sock' = BackendStarted([sock EXCEPT !.listening = TRUE], "reused")
  /\ UNCHANGED <<pipeVars, cleanups, app>>

\* isPortAvailable resolves true: spawn() and the first checkConnection().
\* spawn() starts the process, or fails later with an 'error' event, or
\* throws, which the catch turns into `return false`.
SockSpawn ==
  /\ sock.mode = "socket" /\ sock.phase = "probing"
  /\ IsPortAvailable(sock)
  /\ \/ \E o \in {"running", "spawnerr"} :
          sock' = CheckConnection([sock EXCEPT !.pythonProcess = "proc", !.os = o,
                                               !.startTime = sock.now])
     \/ sock' = BackendFailed(sock, "spawn")
  /\ UNCHANGED <<pipeVars, cleanups, app>>

\* socket.on('connect')
SockConnect ==
  /\ sock.mode = "socket" /\ sock.sockets >= 1
  /\ sock.listening
  /\ sock' = OnConnect(sock)
  /\ UNCHANGED <<pipeVars, cleanups, app>>

\* socket.on('error'): connection refused
SockConnectError ==
  /\ sock.mode = "socket" /\ sock.sockets >= 1
  /\ ~sock.listening
  /\ sock' = OnError(sock)
  /\ UNCHANGED <<pipeVars, cleanups, app>>

\* socket.on('timeout'): no answer within ConnectTimeout
SockConnectTimeout ==
  /\ sock.mode = "socket" /\ sock.sockets >= 1
  /\ sock.now - sock.since >= ConnectTimeout
  /\ sock' = OnTimeout(sock)
  /\ UNCHANGED <<pipeVars, cleanups, app>>

\* setTimeout(checkConnection, 1000) fires
SockRetryTimer ==
  /\ sock.mode = "socket" /\ sock.timers >= 1
  /\ sock.now - sock.since >= RetryDelay
  /\ sock' = CheckConnection([sock EXCEPT !.timers = @ - 1])
  /\ UNCHANGED <<pipeVars, cleanups, app>>

\* Date.now() advances by one unit; a timer that is due fires first
SockTick ==
  /\ sock.mode = "socket" /\ sock.sockets + sock.timers >= 1
  /\ sock.now < MaxTime
  /\ sock.sockets >= 1 => sock.now - sock.since < ConnectTimeout
  /\ sock.timers >= 1 => sock.now - sock.since < RetryDelay
  /\ sock' = [sock EXCEPT !.now = sock.now + 1]
  /\ UNCHANGED <<pipeVars, cleanups, app>>

\* the backend starts to accept connections
SockBackendListen ==
  /\ sock.mode = "socket" /\ sock.os = "running" /\ ~sock.listening
  /\ sock' = [sock EXCEPT !.listening = TRUE]
  /\ UNCHANGED <<pipeVars, cleanups, app>>

\* pythonProcess.on('exit'): pythonProcess = null
SockProcessExit ==
  /\ sock.mode = "socket" /\ sock.os = "running"
  /\ sock' = [sock EXCEPT !.os = "exited", !.pythonProcess = "null", !.listening = FALSE]
  /\ UNCHANGED <<pipeVars, cleanups, app>>

\* pythonProcess.on('error'): logs only
SockSpawnError ==
  /\ sock.mode = "socket" /\ sock.os = "spawnerr"
  /\ sock' = [sock EXCEPT !.os = "failed"]
  /\ UNCHANGED <<pipeVars, cleanups, app>>

\* the body of cleanup() of the socket-mode main.cjs
SockCleanupBody(s) ==
  IF s.pythonProcess # "null"
  THEN [s EXCEPT !.kills = s.kills + 1, !.pythonProcess = "null"]
  ELSE s

\* cleanup() (window-all-closed, before-quit, SIGINT, SIGTERM, exit)
SockCleanup ==
  /\ sock.mode = "socket" /\ sock.phase # "idle"
  /\ cleanups < MaxCleanups
  /\ cleanups' = cleanups + 1
  /\ sock' = SockCleanupBody(sock)
  /\ UNCHANGED <<pipeVars, app>>

\* The application over its life (pipe-mode main.cjs).
\*   darwin: process.platform === 'darwin'; ready: app is ready;
\*   quitting: app.quit() has been called; exited: the main process is gone
\*   windows: BrowserWindow.getAllWindows().length
\*   pythonBridge: the variable of main.cjs, 0 for null, else the number of
\*        the PythonBridge it refers to
\*   bridges: every PythonBridge created, in order: its pythonProcess
\*        handle, its subprocess (os: "none" spawn threw, "failed" spawn
\*        reported an error, "running", "exited") and the kill() calls made
AppStart(d) ==
  [mode |-> "lifecycle", darwin |-> d, ready |-> FALSE, quitting |-> FALSE,
   exited |-> FALSE, windows |-> 0, pythonBridge |-> 0, bridges |-> <<>>]

\* the lifecycle is not followed
AppOff == [AppStart(FALSE) EXCEPT !.mode = "off"]

\* ------------------------------------------------------------------- Init
Init ==
  /\ pythonBridge = "null"
  /\ pythonProcess = "null"
  /\ isReady = FALSE
  /\ messageQueue = <<>>
  /\ callbacks = EmptyMap
  /\ messageId = 0
  /\ timer = "unset"
  /\ initPromise = "none"
  /\ procState = "none"
  /\ kills = 0
  /\ stdin = <<>>
  /\ pipe = <<>>
  /\ emitted = 0
  /\ partial = <<>>
  /\ discarded = "none"
  /\ noted = {}
  /\ results = EmptyMap
  /\ made = <<>>
  /\ cleanups = 0
  /\ sock = SockOff
  /\ app = AppOff

SetBridge(b) ==
  /\ isReady' = b.isReady
  /\ messageQueue' = b.messageQueue
  /\ callbacks' = b.callbacks
  /\ messageId' = b.messageId
  /\ stdin' = b.stdin
  /\ discarded' = b.discarded
  /\ noted' = b.noted
  /\ results' = b.results

\* createWindow has run (initialize() has returned its promise)
created == initPromise # "none"

\* ---------------------------------------------------------------- actions
\* app.whenReady().then(createWindow): new PythonBridge() and the synchronous
\* part of initialize().  spawn() starts the process, or fails later with an
\* 'error' event, or an exception inside the try block rejects at once.
CreateWindow ==
  /\ sock.mode = "pipe"
  /\ ~created
  /\ pythonBridge' = "bridge"
  /\ isReady' = FALSE /\ messageQueue' = <<>> /\ callbacks' = EmptyMap /\ messageId' = 0
  /\ \/ /\ pythonProcess' = "proc" /\ procState' = "running"
        /\ timer' = "scheduled" /\ initPromise' = "pending"
     \/ /\ pythonProcess' = "proc" /\ procState' = "spawnerr"
        /\ timer' = "scheduled" /\ initPromise' = "pending"
     \/ /\ pythonProcess' = "null" /\ procState' = "none"
        /\ timer' = "unset" /\ initPromise' = "rejected"
  /\ UNCHANGED <<kills, stdin, pipe, emitted, partial, discarded, noted, results, made,
                 cleanups, sock, app>>

\* pythonProcess.on('error'): reject(error)
SpawnError ==
  /\ procState = "spawnerr"
  /\ procState' = "failed"
  /\ initPromise' = IF initPromise = "pending" THEN "rejected" ELSE initPromise
  /\ UNCHANGED <<pythonBridge, pythonProcess, isReady, messageQueue, callbacks,
                 messageId, timer, kills, stdin, pipe, emitted, partial, discarded, noted,
                 results, made, cleanups, sock, app>>

\* the setTimeout callback of initialize()
ReadyTimer ==
  /\ timer = "scheduled"
  /\ timer' = "fired"
  /\ SetBridge(ProcessMessageQueue([Bridge EXCEPT !.isReady = TRUE], pythonProcess))
  /\ initPromise' = IF initPromise = "pending" THEN "resolved" ELSE initPromise
  /\ UNCHANGED <<pythonBridge, pythonProcess, procState, kills, pipe, emitted,
                 partial, made, cleanups, sock, app>>

\* pythonProcess.on('exit')
ProcessExit ==
  /\ procState = "running"
  /\ procState' = "exited"
  /\ isReady' = FALSE
  /\ UNCHANGED <<pythonBridge, pythonProcess, messageQueue, callbacks, messageId,
                 timer, initPromise, kills, stdin, pipe, emitted, partial, discarded, noted,
                 results, made, cleanups, sock, app>>

\* PythonBridge.terminate(), the fields of the bridge other than pythonProcess
Terminate(b) ==
  [b EXCEPT !.isReady = FALSE, !.callbacks = EmptyMap, !.messageQueue = <<>>]

\* terminate() that signals the process only once the bridge is Ready
TerminateProcessIfReady(b, proc, k) ==
  [pythonProcess |-> "null", kills |-> IF proc # "null" /\ b.isReady THEN k + 1 ELSE k]

\* terminate() without `this.pythonProcess = null`
TerminateProcessKeepsHandle(b, proc, k) ==
  [pythonProcess |-> proc, kills |-> IF proc # "null" THEN k + 1 ELSE k]

\* PythonBridge.terminate(), the process: kill('SIGTERM') if there is one,
\* and pythonProcess = null
TerminateProcess(b, proc, k) ==
  [pythonProcess |-> "null", kills |-> IF proc # "null" THEN k + 1 ELSE k]

\* cleanup() of main.cjs (window-all-closed, before-quit, SIGINT, SIGTERM, exit)
Cleanup ==
  /\ created
  /\ cleanups < MaxCleanups
  /\ cleanups' = cleanups + 1
  /\ IF pythonBridge = "bridge"
     THEN /\ SetBridge(Terminate(Bridge))
          /\ kills' = TerminateProcess(Bridge, pythonProcess, kills).kills
          /\ pythonProcess' = TerminateProcess(Bridge, pythonProcess, kills).pythonProcess
          /\ pythonBridge' = "null"
     ELSE UNCHANGED <<bridgeVars, kills, pythonProcess, pythonBridge>>
  /\ UNCHANGED <<timer, initPromise, procState, pipe, emitted, partial, made, sock, app>>

\* the method of PythonBridge the switch selects for a catalogue name
ApiMethod(name) ==
  CASE name = "create_exam" -> "createExam"
    [] name = "get_exams" -> "getExams"
    [] name = "get_exam" -> "getExam"
    [] name = "upload_students" -> "uploadStudents"
    [] name = "get_students" -> "getStudents"
    [] name = "upload_solution" -> "uploadSolution"
    [] name = "get_solution" -> "getSolution"
    [] name = "process_omr_image" -> "processOMRImage"
    [] name = "batch_process_omr" -> "batchProcessOMR"
    [] name = "save_result" -> "saveResult"
    [] name = "get_results" -> "getResults"
    [] name = "get_all_results" -> "getAllResults"
    [] name = "generate_omr_sheets" -> "generateOMRSheets"
    [] name = "download_omr_sheets" -> "downloadOMRSheets"
    [] name = "get_settings" -> "getSettings"
    [] name = "update_settings" -> "updateSettings"

\* the API methods with two backend names exchanged: getResults asks for
\* 'get_all_results' and getAllResults for 'get_results'
BackendMethodMixed(api) ==
  CASE api = "createExam" -> "create_exam"
    [] api = "getExams" -> "get_exams"
    [] api = "getExam" -> "get_exam"
    [] api = "uploadStudents" -> "upload_students"
    [] api = "getStudents" -> "get_students"
    [] api = "uploadSolution" -> "upload_solution"
    [] api = "getSolution" -> "get_solution"
    [] api = "processOMRImage" -> "process_omr_image"
    [] api = "batchProcessOMR" -> "batch_process_omr"
    [] api = "saveResult" -> "save_result"
    [] api = "getResults" -> "get_all_results"
    [] api = "getAllResults" -> "get_results"
    [] api = "generateOMRSheets" -> "generate_omr_sheets"
    [] api = "downloadOMRSheets" -> "download_omr_sheets"
    [] api = "getSettings" -> "get_settings"
    [] api = "updateSettings" -> "update_settings"

\* the backend method name an API method of PythonBridge passes to callPython
BackendMethod(api) ==
  CASE api = "createExam" -> "create_exam"
    [] api = "getExams" -> "get_exams"
    [] api = "getExam" -> "get_exam"
    [] api = "uploadStudents" -> "upload_students"
    [] api = "getStudents" -> "get_students"
    [] api = "uploadSolution" -> "upload_solution"
    [] api = "getSolution" -> "get_solution"
    [] api = "processOMRImage" -> "process_omr_image"
    [] api = "batchProcessOMR" -> "batch_process_omr"
    [] api = "saveResult" -> "save_result"
    [] api = "getResults" -> "get_results"
    [] api = "getAllResults" -> "get_all_results"
    [] api = "generateOMRSheets" -> "generate_omr_sheets"
    [] api = "downloadOMRSheets" -> "download_omr_sheets"
    [] api = "getSettings" -> "get_settings"
    [] api = "updateSettings" -> "update_settings"

\* the cases that pass no params (the API method sends {}), and the cases
\* that pass `params` itself; every other case reads a property of `params`
NoParams == {"get_exams", "get_all_results", "get_settings"}

WholeParams == {"create_exam", "save_result", "update_settings"}

\* the params an API method of PythonBridge hands to callPython; an undefined
\* argument is replaced by the default `params = {}` of callPython
ApiParams(method, params) ==
  IF method \in NoParams \/ params = "undefined" THEN "json" ELSE params

\* a dispatcher whose default branch does not name the method
DispatchErrorUnnamed(bridge, method, params) ==
  IF bridge = "null" THEN "Python bridge not initialized"
  ELSE IF method \notin Catalogue THEN "Unknown method"
  ELSE IF params = "undefined" /\ method \notin (NoParams \cup WholeParams) THEN "TypeError"
  ELSE "none"

\* a handler that looks at the name before it looks at the bridge
DispatchErrorNameFirst(bridge, method, params) ==
  IF method \notin Catalogue THEN "Unknown method: " \o method
  ELSE IF bridge = "null" THEN "Python bridge not initialized"
  ELSE IF params = "undefined" /\ method \notin (NoParams \cup WholeParams) THEN "TypeError"
  ELSE "none"

\* the error the 'python-call' handler throws before any API method is
\* called, "none" if it calls one
DispatchError(bridge, method, params) ==
  IF bridge = "null" THEN "Python bridge not initialized"
  ELSE IF method \notin Catalogue THEN "Unknown method: " \o method
  ELSE IF params = "undefined" /\ method \notin (NoParams \cup WholeParams) THEN "TypeError"
  ELSE "none"

\* ipcMain.handle('python-call'), the API method it selects, and callPython
PythonCall(method, params) ==
  /\ created
  /\ Len(made) < MaxCalls
  /\ LET c == Len(made) + 1
         error == DispatchError(pythonBridge, method, params)
     IN IF error # "none"
        THEN /\ results' = Complete(results, c, Completion("reject", "dispatcher", 0, error))
             /\ made' = Append(made, "thrown")
             /\ UNCHANGED <<isReady, messageQueue, callbacks, messageId, stdin, discarded, noted>>
        ELSE /\ SetBridge(CallPython(Bridge,
                            [method |-> BackendMethod(ApiMethod(method)),
                             params |-> ApiParams(method, params), callback |-> c],
                            pythonProcess))
             /\ made' = Append(made, IF isReady THEN "live" ELSE "queued")
  /\ UNCHANGED <<pythonBridge, pythonProcess, timer, initPromise, procState,
                 kills, pipe, emitted, partial, cleanups, sock, app>>

\* the backend prints one frame
BackendEmit(f) ==
  /\ procState = "running"
  /\ emitted < MaxFrames
  /\ emitted' = emitted + 1
  /\ pipe' = pipe \o Encode(f)
  /\ UNCHANGED <<pythonBridge, pythonProcess, isReady, messageQueue, callbacks,
                 messageId, timer, initPromise, procState, kills, stdin,
                 partial, discarded, noted, results, made, cleanups, sock, app>>

\* the backend prints one line that is not a frame
BackendLog(l) ==
  /\ procState = "running"
  /\ emitted < MaxFrames
  /\ emitted' = emitted + 1
  /\ pipe' = pipe \o l
  /\ UNCHANGED <<pythonBridge, pythonProcess, isReady, messageQueue, callbacks,
                 messageId, timer, initPromise, procState, kills, stdin,
                 partial, discarded, noted, results, made, cleanups, sock, app>>

\* pythonProcess.stdout.on('data'): one read of n symbols
StdoutData(n) ==
  /\ n \in 1 .. Len(pipe)
  /\ SetBridge(HandlePythonMessage(Bridge, SubSeq(pipe, 1, n)))
  /\ pipe' = SubSeq(pipe, n + 1, Len(pipe))
  /\ partial' = Unfinished(partial, SubSeq(pipe, 1, n))
  /\ UNCHANGED <<pythonBridge, pythonProcess, timer, initPromise, procState,
                 kills, emitted, made, cleanups, sock, app>>

\* ------------------------------------------------------- the application
\* what spawn() may do: start the process, return a handle and report an
\* 'error' later, or throw
SpawnOutcomes == {"running", "failed", "none"}

\* initializePythonBridge: pythonBridge = new PythonBridge(); initialize()
InitializePythonBridge(a, o) ==
  [a EXCEPT !.bridges = Append(@, [pythonProcess |-> IF o = "none" THEN "null" ELSE "proc",
                                   os |-> o, kills |-> 0]),
            !.pythonBridge = Len(a.bridges) + 1]

\* createWindow: new BrowserWindow (throws before the app is ready), then
\* initializePythonBridge
AppCreateWindow(a, o) ==
  IF ~a.ready THEN a
  ELSE InitializePythonBridge([a EXCEPT !.windows = @ + 1], o)

\* cleanup() of main.cjs
AppCleanupBody(a) ==
  IF a.pythonBridge = 0 THEN a
  ELSE LET i == a.pythonBridge
           t == TerminateProcess(Bridge, a.bridges[i].pythonProcess, a.bridges[i].kills)
       IN [a EXCEPT !.bridges[i].pythonProcess = t.pythonProcess,
                    !.bridges[i].kills = t.kills,
                    !.pythonBridge = 0]

\* an 'activate' handler that does not count the windows
OnActivateAlways(a, o) == AppCreateWindow(a, o)

\* app.on('activate')
OnActivate(a, o) == IF a.windows = 0 THEN AppCreateWindow(a, o) ELSE a

\* app.quit(): 'before-quit' runs cleanup()
AppQuit(a) == [AppCleanupBody(a) EXCEPT !.quitting = TRUE]

\* app.on('window-all-closed')
OnWindowAllClosed(a) ==
  IF a.darwin THEN AppCleanupBody(a) ELSE AppQuit(AppCleanupBody(a))

\* app.whenReady().then(createWindow)
AppReady ==
  /\ app.mode = "lifecycle" /\ ~app.ready /\ ~app.exited
  /\ \E o \in SpawnOutcomes : app' = AppCreateWindow([app EXCEPT !.ready = TRUE], o)
  /\ UNCHANGED <<pipeVars, cleanups, sock>>

\* the application is activated (macOS)
AppActivate ==
  /\ app.mode = "lifecycle" /\ app.darwin /\ ~app.exited
  /\ Len(app.bridges) < MaxBridges
  /\ \E o \in SpawnOutcomes : app' = OnActivate(app, o)
  /\ UNCHANGED <<pipeVars, cleanups, sock>>

\* the user closes the window; the last one gone emits 'window-all-closed'
AppCloseWindow ==
  /\ app.mode = "lifecycle" /\ ~app.exited /\ ~app.quitting
  /\ app.windows >= 1
  /\ LET a == [app EXCEPT !.windows = @ - 1]
     IN app' = IF a.windows = 0 THEN OnWindowAllClosed(a) ELSE a
  /\ UNCHANGED <<pipeVars, cleanups, sock>>

\* the user quits (Cmd+Q, the menu): app.quit()
AppQuitRequested ==
  /\ app.mode = "lifecycle" /\ app.ready /\ ~app.exited /\ ~app.quitting
  /\ app' = AppQuit(app)
  /\ UNCHANGED <<pipeVars, cleanups, sock>>

\* process.on('SIGINT' / 'SIGTERM', cleanup): the handler replaces the
\* default action, the process goes on
AppSignal ==
  /\ app.mode = "lifecycle" /\ ~app.exited
  /\ app' = AppCleanupBody(app)
  /\ UNCHANGED <<pipeVars, cleanups, sock>>

\* a quitting application closes its windows, without 'window-all-closed',
\* and ends at once: process.on('exit', cleanup)
AppExit ==
  /\ app.mode = "lifecycle" /\ app.quitting /\ ~app.exited
  /\ app' = [AppCleanupBody([app EXCEPT !.windows = 0]) EXCEPT !.exited = TRUE]
  /\ UNCHANGED <<pipeVars, cleanups, sock>>

\* the subprocess of a bridge exits, by itself or after the signal
AppBridgeExit ==
  /\ app.mode = "lifecycle"
  /\ \E i \in 1 .. Len(app.bridges) :
       /\ app.bridges[i].os = "running"
       /\ app' = [app EXCEPT !.bridges[i].os = "exited"]
  /\ UNCHANGED <<pipeVars, cleanups, sock>>

Next ==
  \/ CreateWindow
  \/ SpawnError
  \/ ReadyTimer
  \/ ProcessExit
  \/ Cleanup
  \/ \E m \in Methods, p \in Params : PythonCall(m, p)
  \/ \E f \in Frames : BackendEmit(f)
  \/ \E l \in LogLines : BackendLog(l)
  \/ \E n \in 1 .. (4 * MaxFrames) : StdoutData(n)

Spec == Init /\ [][Next]_vars

\* The bridge without the backend's output.  Frames read from stdout change
\* only callbacks, results and the two histories of the read side; stdin,
\* messageId, messageQueue and isReady are decided by these actions alone.
NextCalls ==
  \/ CreateWindow
  \/ SpawnError
  \/ ReadyTimer
  \/ ProcessExit
  \/ Cleanup
  \/ \E m \in Methods, p \in Params : PythonCall(m, p)

SpecCalls == Init /\ [][NextCalls]_vars

\* The dispatcher with every name and every kind of params a renderer can
\* pass to pythonCall(method, params).
NextDispatch ==
  \/ CreateWindow
  \/ ReadyTimer
  \/ Cleanup
  \/ \E m \in Catalogue \cup UnknownNames, p \in DispatchParams : PythonCall(m, p)

SpecDispatch == Init /\ [][NextDispatch]_vars

\* The socket-mode main.cjs.
InitSocket ==
  /\ pythonBridge = "null"
  /\ pythonProcess = "null"
  /\ isReady = FALSE
  /\ messageQueue = <<>>
  /\ callbacks = EmptyMap
  /\ messageId = 0
  /\ timer = "unset"
  /\ initPromise = "none"
  /\ procState = "none"
  /\ kills = 0
  /\ stdin = <<>>
  /\ pipe = <<>>
  /\ emitted = 0
  /\ partial = <<>>
  /\ discarded = "none"
  /\ noted = {}
  /\ results = EmptyMap
  /\ made = <<>>
  /\ cleanups = 0
  /\ sock = SockStart
  /\ app = AppOff

NextSocket ==
  \/ SockCreateWindow
  \/ SockPortBusy
  \/ SockSpawn
  \/ SockConnect
  \/ SockConnectError
  \/ SockConnectTimeout
  \/ SockRetryTimer
  \/ SockTick
  \/ SockBackendListen
  \/ SockProcessExit
  \/ SockSpawnError
  \/ SockCleanup

\* Either version of main.cjs, with everything but the backend's output.
InitEither == Init \/ InitSocket

NextEither == NextCalls \/ NextSocket

SpecShutdown == InitEither /\ [][NextEither]_vars

\* The pipe-mode application over its life, on either platform.
InitLifecycle ==
  /\ pythonBridge = "null"
  /\ pythonProcess = "null"
  /\ isReady = FALSE
  /\ messageQueue = <<>>
  /\ callbacks = EmptyMap
  /\ messageId = 0
  /\ timer = "unset"
  /\ initPromise = "none"
  /\ procState = "none"
  /\ kills = 0
  /\ stdin = <<>>
  /\ pipe = <<>>
  /\ emitted = 0
  /\ partial = <<>>
  /\ discarded = "none"
  /\ noted = {}
  /\ results = EmptyMap
  /\ made = <<>>
  /\ cleanups = 0
  /\ sock = SockOff
  /\ app \in {AppStart(d) : d \in BOOLEAN}

NextLifecycle ==
  \/ AppReady
  \/ AppActivate
  \/ AppCloseWindow
  \/ AppQuitRequested
  \/ AppSignal
  \/ AppExit
  \/ AppBridgeExit

SpecLifecycle == InitLifecycle /\ [][NextLifecycle]_vars

\* Timers fire when they are due and the clock does not stop while
\* waitForService waits.
SpecSocket ==
  /\ InitSocket
  /\ [][NextSocket]_vars
  /\ WF_vars(SockTick)
  /\ WF_vars(SockConnectTimeout)
  /\ WF_vars(SockRetryTimer)

\* ------------------------------------------------------------------ claims
\* callers still waiting: registered in callbacks, or held in the queue
Outstanding ==
  {callbacks[i] : i \in DOMAIN callbacks}
    \cup {messageQueue[i].callback : i \in 1 .. Len(messageQueue)}

\* callers whose callback has been invoked with a write error
WriteFailed == {c \in DOMAIN results : \E k \in 1 .. Len(results[c]) : results[c][k].via = "write"}

\* C1: the Requests written to the backend's stdin appear in the order in
\* which their calls were made (callers are numbered in call order): the
\* calls queued before readiness keep their order through the drain, and a
\* call made after readiness is written after all of them.
C1_TransmissionOrder ==
  \A i, j \in 1 .. Len(stdin) : i < j => stdin[i].callback < stdin[j].callback

\* two queued calls were drained and a later live call was written after them
C1_Witness ==
  /\ Len(stdin) >= 3
  /\ made[stdin[1].callback] = "queued"
  /\ made[stdin[2].callback] = "queued"
  /\ made[stdin[3].callback] = "live"

\* C2 as stated: the ids on transmitted Requests are strictly increasing,
\* never repeat, and the first one is 1.
C2_Original ==
  /\ \A i, j \in 1 .. Len(stdin) : i < j => stdin[i].id < stdin[j].id
  /\ Len(stdin) >= 1 => stdin[1].id = 1

\* C2 amended: the ids on transmitted Requests are strictly increasing and
\* never repeat; ids are allocated from 1, one per call that reaches the write,
\* so the first transmitted id is 1 plus the number of earlier calls whose
\* write threw.
C2_IdsIncrease ==
  /\ \A i, j \in 1 .. Len(stdin) : i < j => stdin[i].id < stdin[j].id
  /\ \A i \in 1 .. Len(stdin) : stdin[i].id \in 1 .. messageId
  /\ Len(stdin) >= 1 =>
       stdin[1].id = 1 + Cardinality({c \in WriteFailed : c < stdin[1].callback})

\* a write threw, and two Requests were transmitted after it
C2_Witness ==
  /\ Len(stdin) >= 2
  /\ stdin[1].id = 2
  /\ 1 \in WriteFailed

\* ----------------------------------------------------- steps, as actions
\* a step of the 'data' handler, and the chunk it read
DataStep == Len(pipe') < Len(pipe)

Chunk == SubSeq(pipe, 1, Len(pipe) - Len(pipe'))

\* a step of the 'python-call' handler, and the caller it serves
CallStep == Len(made') = Len(made) + 1

NewCaller == Len(made) + 1

\* a whole frame, as one line without its newline
IsFrameLine(line) ==
  Len(line) = 3 /\ line[1].s = "tag" /\ line[2].s = "id" /\ line[3].s = "val"

\* the newline-terminated lines of a text
EndedLines(t) == SubSeq(Split(t), 1, Len(Split(t)) - 1)

\* the ids of the frames of a chunk made of whole lines
ChunkIds == {EndedLines(Chunk)[k][2].id : k \in 1 .. Len(EndedLines(Chunk))}

\* the chunk starts where a line starts, ends where a line ends, and every
\* line of it is a frame
WholeFrames ==
  /\ partial = <<>>
  /\ Chunk[Len(Chunk)] = NL
  /\ \A k \in 1 .. Len(EndedLines(Chunk)) : IsFrameLine(EndedLines(Chunk)[k])

\* the Request written for caller c, if any
RequestsOf(c) == {i \in 1 .. Len(stdin) : stdin[i].callback = c}

\* C3: every transmitted Request has its caller completed exactly once: never
\* twice, and not zero times once terminate() has cleared the bridge.
C3_Claim ==
  \A i \in 1 .. Len(stdin) :
    /\ Len(CompletionsOf(results, stdin[i].callback)) <= 1
    /\ pythonBridge = "null" => Len(CompletionsOf(results, stdin[i].callback)) = 1

\* C4: when the backend process exits while the bridge is Starting or Ready,
\* the exit handler fails every pending and every queued call.
C4_Claim ==
  [][(procState = "running" /\ procState' = "exited" /\ pythonBridge = "bridge")
       => \A c \in Outstanding :
            /\ Len(CompletionsOf(results', c)) = 1
            /\ CompletionsOf(results', c)[1].how = "reject"]_vars

\* C5: terminate() fails every outstanding caller, pending or queued.
C5_Claim ==
  [][(pythonBridge = "bridge" /\ pythonBridge' = "null")
       => \A c \in Outstanding :
            /\ Len(CompletionsOf(results', c)) = 1
            /\ CompletionsOf(results', c)[1].how = "reject"]_vars

\* C6: a call made when the bridge is Terminated (after cleanup) or Crashed
\* (after the backend exited) is failed at once and is not queued.
C6_Claim ==
  [][(CallStep /\ (pythonBridge = "null" \/ procState = "exited"))
       => /\ Len(CompletionsOf(results', NewCaller)) = 1
          /\ CompletionsOf(results', NewCaller)[1].how = "reject"
          /\ messageQueue' = messageQueue]_vars

\* every completion made by a frame carries the id of the caller's own
\* Request and the payload of its kind of frame
OwnReplies ==
  \A c \in DOMAIN results : \A k \in 1 .. Len(results[c]) :
    results[c][k].via \in Kinds =>
      /\ \E i \in RequestsOf(c) : stdin[i].id = results[c][k].id
      /\ results[c][k].how = (IF results[c][k].via = "RESPONSE" THEN "resolve" ELSE "reject")
      /\ results[c][k].val = Payload(results[c][k].via)

\* the first frame of the chunk that carries id i
FirstFrame(i) ==
  EndedLines(Chunk)[CHOOSE k \in 1 .. Len(EndedLines(Chunk)) :
                      /\ EndedLines(Chunk)[k][2].id = i
                      /\ \A j \in 1 .. (k - 1) : EndedLines(Chunk)[j][2].id # i]

\* C7: replies are matched to callers by id alone, whatever their order.  A
\* read of whole frames completes, for each pending id it names, the caller
\* registered under that id, with the kind, id and payload of that frame, and
\* completes no other caller; and at all times every completion made by a
\* frame carries the id of the caller's own Request.
C7_OwnReply ==
  [][/\ (DataStep /\ WholeFrames)
          => \A c \in 1 .. Len(made) :
               IF \E i \in ChunkIds \cap DOMAIN callbacks : callbacks[i] = c
               THEN LET i == CHOOSE i \in ChunkIds \cap DOMAIN callbacks : callbacks[i] = c
                        f == FirstFrame(i)
                    IN CompletionsOf(results', c)
                         = Append(CompletionsOf(results, c),
                                  Completion(IF f[1].kind = "RESPONSE" THEN "resolve" ELSE "reject",
                                             f[1].kind, i, f[3].val))
               ELSE CompletionsOf(results', c) = CompletionsOf(results, c)
     /\ OwnReplies'
    ]_vars

\* Requests 1 and 2 were pending, the reply for id 2 has completed its caller
\* and the reply for id 1 has not arrived
C7_Witness ==
  /\ Len(stdin) >= 2
  /\ stdin[1].id = 1 /\ stdin[2].id = 2
  /\ 1 \in DOMAIN callbacks
  /\ CompletionsOf(results, stdin[2].callback) # <<>>
  /\ CompletionsOf(results, stdin[2].callback)[1].id = 2

\* C8: a read of whole frames, one of which carries an id with no pending
\* call, returns normally; the pending calls whose ids are not in the read are
\* unchanged; no caller other than the pending callers named in the read is
\* completed; each of those is completed once and removed, also when its frame
\* follows the unmatched one; nothing else of the bridge changes.
C8_UnmatchedDropped ==
  [][(DataStep /\ WholeFrames /\ \E i \in ChunkIds : i \notin DOMAIN callbacks)
       => /\ \A i \in (DOMAIN callbacks) \ ChunkIds :
               i \in DOMAIN callbacks' /\ callbacks'[i] = callbacks[i]
          /\ \A i \in (DOMAIN callbacks) \cap ChunkIds :
               /\ i \notin DOMAIN callbacks'
               /\ Len(CompletionsOf(results', callbacks[i]))
                    = Len(CompletionsOf(results, callbacks[i])) + 1
          /\ \A c \in DOMAIN results' :
               CompletionsOf(results', c) # CompletionsOf(results, c)
                 => \E i \in (DOMAIN callbacks) \cap ChunkIds : callbacks[i] = c
          /\ UNCHANGED <<isReady, messageQueue, messageId, stdin>>]_vars

\* a frame with no pending call was dropped and a later frame was delivered
C8_Witness == discarded = "served"

\* the queue entries the drain can write: write() throws on the others
Writable(q) == SelectSeq(q, LAMBDA call : call.params = "json")

\* C9: (a) a call made before the readiness timer fires is queued; (b) when
\* the timer fires, every queued call whose write does not throw becomes
\* exactly one Request, in order, the first carrying id 1 when no write threw
\* before it, each with the method and params of its call; (c) when the read
\* that ends a RESPONSE frame for the id of such a Request arrives, the caller
\* is resolved with the result of that frame.
C9_Claim ==
  [][/\ (CallStep /\ pythonBridge = "bridge" /\ timer = "scheduled")
          => /\ Len(messageQueue') = Len(messageQueue) + 1
             /\ messageQueue'[Len(messageQueue')].callback = NewCaller
             /\ stdin' = stdin
     /\ (timer = "scheduled" /\ timer' = "fired" /\ pythonProcess = "proc")
          => /\ Len(stdin') = Len(Writable(messageQueue))
             /\ \A k \in 1 .. Len(stdin') :
                  /\ stdin'[k].callback = Writable(messageQueue)[k].callback
                  /\ stdin'[k].method = Writable(messageQueue)[k].method
                  /\ stdin'[k].params = Writable(messageQueue)[k].params
             /\ (messageQueue # <<>> /\ Head(messageQueue).params = "json")
                  => stdin'[1].id = 1
     /\ DataStep
          => \A k \in 1 .. Len(EndedLines(partial \o Chunk)) :
               LET line == EndedLines(partial \o Chunk)[k]
               IN (/\ IsFrameLine(line)
                   /\ line[1].kind = "RESPONSE"
                   /\ line[2].id \in DOMAIN callbacks
                   /\ made[callbacks[line[2].id]] = "queued")
                    => CompletionsOf(results', callbacks[line[2].id])
                         = <<Completion("resolve", "RESPONSE", line[2].id, line[3].val)>>
    ]_vars

\* C10: received data is reassembled into lines before parsing, so a frame
\* for a pending id is delivered to its caller by the read that ends its
\* line, whether or not its bytes came in one read: the caller is completed
\* once, with the frame's id, and removed.  (`partial` is what a line buffer
\* would have kept of the line so far; the code keeps nothing.)
C10_Claim ==
  [][DataStep
       => \A k \in 1 .. Len(EndedLines(partial \o Chunk)) :
            LET line == EndedLines(partial \o Chunk)[k]
            IN (IsFrameLine(line) /\ line[2].id \in DOMAIN callbacks)
                 => /\ line[2].id \notin DOMAIN callbacks'
                    /\ Len(CompletionsOf(results', callbacks[line[2].id])) = 1
                    /\ CompletionsOf(results', callbacks[line[2].id])[1].id = line[2].id
    ]_vars

\* the ids of the whole frames among the newline-terminated lines of a text
FrameIdsIn(t) ==
  {EndedLines(t)[k][2].id : k \in {j \in 1 .. Len(EndedLines(t)) : IsFrameLine(EndedLines(t)[j])}}

\* the read is made of whole lines: it starts where a line starts and ends
\* where a line ends
WholeLines == partial = <<>> /\ Chunk[Len(Chunk)] = NL

\* C11: a read of whole lines, one of which matches neither tag or carries a
\* tag without parsable JSON, returns normally; the malformed line changes no
\* pending call; and every well-formed frame of the read for a pending id,
\* before or after the malformed line, completes its caller and removes it.
C11_Claim ==
  [][(DataStep /\ WholeLines
        /\ \E k \in 1 .. Len(EndedLines(Chunk)) : ~IsFrameLine(EndedLines(Chunk)[k]))
       => /\ \A i \in (DOMAIN callbacks) \ FrameIdsIn(Chunk) :
               i \in DOMAIN callbacks' /\ callbacks'[i] = callbacks[i]
          /\ \A i \in (DOMAIN callbacks) \cap FrameIdsIn(Chunk) :
               /\ i \notin DOMAIN callbacks'
               /\ Len(CompletionsOf(results', callbacks[i]))
                    = Len(CompletionsOf(results, callbacks[i])) + 1]_vars

\* C12: once the backend process has exited (Crashed) no step makes the
\* bridge Ready or writes a Request to the exited process; in particular not
\* the readiness timer firing after the exit.
C12_Claim ==
  [][procState = "exited" => (~isReady' /\ stdin' = stdin)]_vars

\* C13: when terminate() ran while the readiness timer was still pending, no
\* later step makes the bridge Ready or writes a Request.
C13_Claim ==
  [][(pythonBridge = "null" /\ timer = "scheduled") => (~isReady' /\ stdin' = stdin)]_vars

\* C19: after the subprocess emitted its spawn 'error' no step makes the
\* bridge Ready, allocates an id or writes a Request.
C19_Claim ==
  [][procState = "failed"
       => (~isReady' /\ messageId' = messageId /\ stdin' = stdin)]_vars

\* C20: a call reaching callPython while the bridge is not Ready is appended
\* to the queue and does nothing else: no Request is written, no id is
\* allocated, no pending call is registered, no callback is invoked; and
\* until the readiness timer has fired no id has been allocated, nothing has
\* been written and nothing is pending.
C20_QueuedOnly ==
  /\ [](timer # "fired" => (messageId = 0 /\ stdin = <<>> /\ callbacks = EmptyMap))
  /\ [][(CallStep /\ pythonBridge = "bridge" /\ ~isReady)
          => /\ Len(messageQueue') = Len(messageQueue) + 1
             /\ SubSeq(messageQueue', 1, Len(messageQueue)) = messageQueue
             /\ messageQueue'[Len(messageQueue')].callback = NewCaller
             /\ UNCHANGED <<stdin, messageId, callbacks, results>>]_vars

\* two calls made while Starting are both held in the queue, nothing is written
C20_Witness ==
  /\ timer = "scheduled"
  /\ Len(messageQueue) = 2
  /\ messageQueue[1].callback = 1 /\ messageQueue[2].callback = 2
  /\ stdin = <<>> /\ messageId = 0

\* the completions of the caller served by this step, after the step
NewCompletions == CompletionsOf(results', NewCaller)

\* C15 as stated: a 'python-call' with a name outside the catalogue fails
\* with the unknown-method error naming that name, and allocates no id,
\* queues nothing, registers no pending call and writes nothing.
C15_Original ==
  [][\A m \in UnknownNames, p \in DispatchParams :
       PythonCall(m, p)
         => /\ NewCompletions
                 = <<Completion("reject", "dispatcher", 0, "Unknown method: " \o m)>>
            /\ UNCHANGED <<messageId, messageQueue, callbacks, stdin>>]_vars

\* C15 amended: a 'python-call' with a name outside the catalogue fails
\* before any API method is called: with the unknown-method error naming that
\* name while main.cjs holds a bridge, and with 'Python bridge not initialized'
\* when it holds none (after cleanup); in both cases no id is allocated,
\* nothing is queued, no pending call is registered and nothing is written.
C15_UnknownMethod ==
  [][\A m \in UnknownNames, p \in DispatchParams :
       PythonCall(m, p)
         => /\ NewCompletions
                 = <<Completion("reject", "dispatcher", 0,
                                IF pythonBridge = "bridge"
                                THEN "Unknown method: " \o m
                                ELSE "Python bridge not initialized")>>
            /\ UNCHANGED <<messageId, messageQueue, callbacks, stdin>>]_vars

\* a call with an unknown name was refused by the default branch while a
\* Request of an earlier call was pending
C15_Witness ==
  /\ pythonBridge = "bridge"
  /\ Len(stdin) = 1 /\ 1 \in DOMAIN callbacks
  /\ CompletionsOf(results, 2)
       = <<Completion("reject", "dispatcher", 0, "Unknown method: ping")>>

\* C18: a 'python-call' with a catalogue name n that reaches callPython hands
\* it the method n: the Request written, or the call queued, carries n; the
\* drain writes each queued call with the method it was queued with; and two
\* different catalogue names never give the same backend method.
C18_MethodNames ==
  /\ \A a, b \in Catalogue :
       a # b => BackendMethod(ApiMethod(a)) # BackendMethod(ApiMethod(b))
  /\ [][/\ \A m \in Catalogue, p \in DispatchParams :
             PythonCall(m, p)
               => /\ Len(stdin') > Len(stdin) => stdin'[Len(stdin')].method = m
                  /\ Len(messageQueue') > Len(messageQueue)
                       => messageQueue'[Len(messageQueue')].method = m
                  /\ DispatchError(pythonBridge, m, p) = "none"
                       => (Len(stdin') > Len(stdin)
                             \/ Len(messageQueue') > Len(messageQueue))
        /\ (timer = "scheduled" /\ timer' = "fired" /\ pythonProcess = "proc")
             => /\ Len(stdin') = Len(Writable(messageQueue))
                /\ \A k \in 1 .. Len(stdin') :
                     stdin'[k].method = Writable(messageQueue)[k].method
       ]_vars

\* 'get_results' was queued and written by the drain, 'get_all_results' was
\* written live after it
C18_Witness ==
  /\ Len(stdin) = 2
  /\ made[stdin[1].callback] = "queued" /\ stdin[1].method = "get_results"
  /\ made[stdin[2].callback] = "live" /\ stdin[2].method = "get_all_results"

\* waitForService is waiting
Waiting == sock.phase \in {"polling", "backoff"}

\* waitForService has rejected with its timeout error
TimedOut == sock.phase = "failed" /\ sock.error = "timeout"

\* C16: (a) waitForService rejects with the timeout error only when the
\* elapsed time exceeds the budget, and the checkAgain that finds the budget
\* exceeded rejects; (b) no Request is written while the gate waits or after it
\* failed: the process has no pipe; (c) if nothing ever accepts connections,
\* a waiting waitForService does reject with the timeout error.
C16_GateTimeout ==
  /\ [](TimedOut => sock.now - sock.startTime > Timeout)
  /\ [][(sock.phase = "polling" /\ sock'.phase \in {"backoff", "failed"})
          => (sock'.phase = "failed" <=> sock.now - sock.startTime > Timeout)]_vars
  /\ [](stdin = <<>> /\ messageId = 0)
  /\ ([](~sock.listening) => [](Waiting => <>TimedOut))

\* the backend ran but never listened, and waitForService gave up after the
\* budget
C16_Witness ==
  /\ TimedOut
  /\ sock.os = "running" /\ ~sock.listening
  /\ sock.now - sock.startTime = Timeout + 1

\* a step of cleanup()
CleanupStep == cleanups' = cleanups + 1

\* C14: terminate() applied to a terminated bridge signals nothing and
\* changes nothing (terminate twice is terminate once), and so for the
\* cleanup() of the socket-mode main.cjs; a run of cleanup() that finds no
\* bridge (no process handle) changes nothing; and however often cleanup()
\* runs, the subprocess is signalled at most once.
C14_Idempotent ==
  /\ [](/\ kills <= 1 /\ sock.kills <= 1
        /\ LET t1 == TerminateProcess(Bridge, pythonProcess, kills)
               b1 == Terminate(Bridge)
           IN /\ TerminateProcess(b1, t1.pythonProcess, t1.kills) = t1
              /\ Terminate(b1) = b1
        /\ SockCleanupBody(SockCleanupBody(sock)) = SockCleanupBody(sock))
  /\ [][CleanupStep
          => /\ (sock.mode = "pipe" /\ pythonBridge = "null") => UNCHANGED <<pipeVars, sock>>
             /\ (sock.mode = "socket" /\ sock.pythonProcess = "null")
                  => UNCHANGED <<pipeVars, sock>>]_vars

\* cleanup() ran twice on a bridge with a live process: one signal
C14_Witness ==
  /\ cleanups = 2
  /\ kills = 1
  /\ pythonBridge = "null" /\ pythonProcess = "null"

RECURSIVE OneByOne(_, _)
OneByOne(b, lines) ==
  IF lines = <<>> THEN b
  ELSE OneByOne(HandlePythonMessage(b, Append(Head(lines), NL)), Tail(lines))

\* C21: a read made of two or more whole frames handles every one of them,
\* first to last: each pending id named in the read is removed and its caller
\* gets one completion, that of the first frame naming it; and the outcome is
\* the one of handling the frames one read at a time in the order received.
C21_EveryFrame ==
  [][(DataStep /\ WholeFrames /\ Len(EndedLines(Chunk)) >= 2)
       => /\ \A i \in ChunkIds \cap DOMAIN callbacks :
               /\ i \notin DOMAIN callbacks'
               /\ CompletionsOf(results', callbacks[i])
                    = Append(CompletionsOf(results, callbacks[i]),
                             Completion(IF FirstFrame(i)[1].kind = "RESPONSE"
                                        THEN "resolve" ELSE "reject",
                                        FirstFrame(i)[1].kind, i, FirstFrame(i)[3].val))
          /\ callbacks' = OneByOne(Bridge, EndedLines(Chunk)).callbacks
          /\ results' = OneByOne(Bridge, EndedLines(Chunk)).results]_vars

\* one read completed the callers of two pending Requests
C21_Witness ==
  /\ "batch" \in noted
  /\ Len(stdin) >= 2
  /\ Len(CompletionsOf(results, stdin[1].callback)) = 1
  /\ Len(CompletionsOf(results, stdin[2].callback)) = 1

\* C22: no caller is ever completed twice; and a read of whole frames that
\* all carry ids handled before (allocated, no longer pending) completes no
\* caller and changes nothing of the bridge.
C22_AtMostOnce ==
  /\ [](\A c \in DOMAIN results : Len(results[c]) <= 1)
  /\ [][(DataStep /\ WholeFrames
           /\ \A i \in ChunkIds : i <= messageId /\ i \notin DOMAIN callbacks)
          => UNCHANGED <<isReady, messageQueue, callbacks, messageId, stdin, results>>]_vars

\* the Request with id 1 was answered, and a second frame for id 1 came later
C22_Witness ==
  /\ messageId = 1 /\ Len(stdin) = 1
  /\ Len(CompletionsOf(results, stdin[1].callback)) = 1
  /\ CompletionsOf(results, stdin[1].callback)[1].via \in Kinds
  /\ "again" \in noted

\* result values and fault messages a frame may carry
Values == {"[]", "Exam not found", ""}

\* C25: for every pending id, every kind of frame and every payload, the
\* read of that frame completes the caller registered under the id with
\* exactly the payload of the frame: resolved with the result of a RESPONSE,
\* rejected with the message of an ERROR.
C25_Verbatim ==
  \A i \in DOMAIN callbacks : \A k \in Kinds : \A v \in Values :
    HandlePythonMessage(Bridge, Encode([kind |-> k, id |-> i, val |-> v])).results
      = Complete(results, callbacks[i],
                 Completion(IF k = "RESPONSE" THEN "resolve" ELSE "reject", k, i, v))

\* one caller was resolved with the result of its RESPONSE and another was
\* rejected with the message of its ERROR
C25_Witness ==
  /\ \E c \in DOMAIN results :
       \E i \in FrameIds : results[c] = <<Completion("resolve", "RESPONSE", i, "[]")>>
  /\ \E c \in DOMAIN results :
       \E i \in FrameIds : results[c] = <<Completion("reject", "ERROR", i, "Exam not found")>>

\* the ids of the Requests written
SentIds == {stdin[k].id : k \in 1 .. Len(stdin)}

\* C26: a call whose write threw was rejected once, with the error of the
\* write, and never again; its id is not pending, is on no Request and was
\* given to no other call; the call that throws leaves callbacks and stdin as
\* they were and consumes one id.
C26_WriteFailure ==
  /\ [](\A c \in WriteFailed :
          /\ Len(results[c]) = 1
          /\ results[c][1].how = "reject"
          /\ results[c][1].id \in 1 .. messageId
          /\ results[c][1].id \notin DOMAIN callbacks
          /\ results[c][1].id \notin SentIds
          /\ \A d \in WriteFailed : d # c => results[d][1].id # results[c][1].id)
  /\ [][(CallStep /\ NewCompletions # <<>> /\ NewCompletions[1].via = "write")
          => /\ NewCompletions
                  = <<Completion("reject", "write", messageId + 1, "TypeError")>>
             /\ messageId' = messageId + 1
             /\ UNCHANGED <<callbacks, stdin, messageQueue>>]_vars

\* the write of the call with id 1 threw, and a frame for id 1 came later
C26_Witness ==
  /\ messageId = 1
  /\ 1 \in WriteFailed
  /\ Len(results[1]) = 1
  /\ "again" \in noted

\* the callers pending after the step, and the callers of the queue
PendingAfter == {callbacks'[i] : i \in DOMAIN callbacks'}

Queued == {messageQueue[k].callback : k \in 1 .. Len(messageQueue)}

\* a step of the readiness timer
TimerStep == timer = "scheduled" /\ timer' = "fired"

\* C27 as stated: whenever the bridge is Ready the queue is empty, every call
\* queued before the transition is pending after the drain, and a call made
\* while Ready is not queued.
C27_Original ==
  /\ [](isReady => messageQueue = <<>>)
  /\ [][/\ TimerStep => Queued \subseteq PendingAfter
        /\ (CallStep /\ isReady) => messageQueue' = messageQueue]_vars

\* C27 amended: whenever the bridge is Ready the queue is empty; the drain
\* takes every queued call out of the queue, into a pending Request or, when
\* its write throws, into an immediate failure; a call made while Ready is
\* not queued.
C27_ReadyQueueEmpty ==
  /\ [](isReady => messageQueue = <<>>)
  /\ [][/\ TimerStep
             => \A c \in Queued :
                  \/ /\ c \in PendingAfter
                     /\ \E k \in 1 .. Len(stdin') : stdin'[k].callback = c
                     /\ CompletionsOf(results', c) = <<>>
                  \/ /\ c \notin PendingAfter
                     /\ Len(CompletionsOf(results', c)) = 1
                     /\ CompletionsOf(results', c)[1].via = "write"
        /\ (CallStep /\ isReady) => messageQueue' = messageQueue]_vars

\* two calls were queued; the drain wrote one and failed the other
C27_Witness ==
  /\ isReady /\ messageQueue = <<>>
  /\ Len(made) >= 2 /\ made[1] = "queued" /\ made[2] = "queued"
  /\ Len(stdin) = 1
  /\ Cardinality(WriteFailed) = 1

\* C28: with no bridge object the handler throws 'Python bridge not
\* initialized' for every name, supported or not, and every params, and
\* allocates, queues, registers and writes nothing.
C28_NotInitialized ==
  /\ \A m \in Catalogue \cup UnknownNames, p \in DispatchParams :
       DispatchError("null", m, p) = "Python bridge not initialized"
  /\ [][\A m \in Catalogue \cup UnknownNames, p \in DispatchParams :
          (pythonBridge = "null" /\ PythonCall(m, p))
            => /\ NewCompletions
                    = <<Completion("reject", "dispatcher", 0,
                                   "Python bridge not initialized")>>
               /\ UNCHANGED <<messageId, messageQueue, callbacks, stdin>>]_vars

\* after cleanup two calls were made and both were refused
C28_Witness ==
  /\ pythonBridge = "null" /\ cleanups >= 1
  /\ Len(made) = 2
  /\ \A c \in {1, 2} :
       CompletionsOf(results, c)
         = <<Completion("reject", "dispatcher", 0, "Python bridge not initialized")>>

\* C30: once terminate() has returned the bridge is not ready, has no
\* pending call, an empty queue and no process handle; and a read that
\* arrives from the old process afterwards completes no caller.
C30_Claim ==
  /\ []((created /\ pythonBridge = "null")
          => (~isReady /\ callbacks = EmptyMap /\ messageQueue = <<>>
                /\ pythonProcess = "null"))
  /\ [][(DataStep /\ pythonBridge = "null") => results' = results]_vars

\* C23: (a) a connection that succeeds resolves the gate, whatever went
\* before; (b) an attempt that fails by error or by its connect timeout
\* leaves exactly one retry timer and no socket when the budget is not
\* exceeded, and rejects otherwise; (c) the retry timer fires RetryDelay after
\* the failure and opens exactly one socket; (d) while the gate waits exactly
\* one socket or timer is outstanding, and none once it has settled; (e)
\* resolve/reject is called at most once and a settled gate stays as it is.
C23_Gate ==
  /\ [][SockConnect => (sock.phase = "polling" /\ sock'.phase = "ready"
                          /\ sock'.settles = 1)]_vars
  /\ [][(SockConnectError \/ SockConnectTimeout)
          => IF sock.now - sock.startTime <= Timeout
             THEN /\ sock'.phase = "backoff" /\ sock'.since = sock.now
                  /\ sock'.timers = 1 /\ sock'.sockets = 0 /\ sock'.settles = 0
             ELSE sock'.phase = "failed" /\ sock'.error = "timeout"
                    /\ sock'.settles = 1]_vars
  /\ [][SockRetryTimer => (sock.now - sock.since = RetryDelay
                             /\ sock'.phase = "polling"
                             /\ sock'.sockets = 1 /\ sock'.timers = 0)]_vars
  /\ [](IF Waiting THEN sock.sockets + sock.timers = 1 /\ sock.settles = 0
        ELSE sock.sockets + sock.timers = 0)
  /\ [](sock.settles <= 1)
  /\ [][sock.phase \in {"ready", "reused", "failed"}
          => (sock'.phase = sock.phase /\ sock'.settles = sock.settles)]_vars

\* the gate resolved on an attempt made after two failed ones
C23_Witness ==
  /\ sock.phase = "ready" /\ sock.settles = 1
  /\ sock.now - sock.startTime >= 2 * RetryDelay
  /\ sock.sockets = 0 /\ sock.timers = 0

\* C29: when the start of the backend fails the main page is never loaded
\* and exactly one error box is shown; the main page is loaded only after the
\* start has succeeded.
C29_Claim ==
  /\ [](sock.phase = "failed" => (sock.page # "main" /\ Len(sock.dialogs) = 1))
  /\ [](sock.page = "main" => sock.phase \in {"ready", "reused"})

\* the bridges whose subprocess was spawned, has not exited and has not
\* been signalled
Live(a) ==
  {i \in 1 .. Len(a.bridges) : a.bridges[i].os = "running" /\ a.bridges[i].kills = 0}

\* C24: at most one PythonBridge has a live subprocess, and it is the one
\* main.cjs refers to; a PythonBridge is created only when main.cjs refers to
\* none and no earlier one has a live subprocess.
C24_OneBridge ==
  /\ [](Cardinality(Live(app)) <= 1)
  /\ [](\A i \in Live(app) : app.pythonBridge = i)
  /\ [][Len(app'.bridges) > Len(app.bridges)
          => (app.pythonBridge = 0 /\ Live(app) = {}
                /\ Len(app'.bridges) = Len(app.bridges) + 1)]_vars

\* the first bridge was terminated when the window closed; the application
\* was activated again and the second bridge has a live subprocess
C24_Witness ==
  /\ Len(app.bridges) = 2
  /\ app.bridges[1].kills = 1 /\ app.bridges[1].pythonProcess = "null"
  /\ Live(app) = {2}
  /\ app.windows = 1

\* C31: when the probe finds port 3001 taken, startPythonBackend returns
\* true at once: no subprocess is spawned, no connection attempt or retry
\* timer is started, the gate is never settled, no error box is shown and the
\* main page is loaded; and a subprocess is only ever spawned by the step
\* that follows a probe that found the port free.
C31_PortInUse ==
  /\ [][(sock.phase = "probing" /\ ~sock.portFree /\ sock' # sock)
          => /\ sock'.phase = "reused" /\ sock'.page = "main"
             /\ sock'.dialogs = <<>>
             /\ sock'.pythonProcess = "null" /\ sock'.os = "none"
             /\ sock'.sockets = 0 /\ sock'.timers = 0 /\ sock'.settles = 0]_vars
  /\ [](sock.phase = "reused"
          => (sock.os = "none" /\ sock.pythonProcess = "null" /\ sock.kills = 0
                /\ sock.sockets = 0 /\ sock.timers = 0 /\ sock.settles = 0))
  /\ [][(sock.os = "none" /\ sock'.os # "none")
          => (sock.phase = "probing" /\ sock.portFree)]_vars
  /\ [](sock.os # "none" => sock.portFree)

\* the port was taken: the main page is shown and nothing was spawned, even
\* after cleanup() ran
C31_Witness ==
  /\ sock.phase = "reused" /\ ~sock.portFree
  /\ sock.page = "main" /\ sock.os = "none"
  /\ cleanups >= 1

====
